---- MODULE Spec2Model ----
(***************************************************************************)
(* Climatology analysis run of app.py: fetch of the NASA POWER daily       *)
(* series, process_nasa_data, calculate_statistics, predict_conditions,    *)
(* the planning recommendations and the packing checklist.                 *)
(*                                                                         *)
(* Units.  Temperatures are whole degrees Celsius, wind speeds whole m/s,  *)
(* precipitation is in hundredths of a millimetre (0.1 mm = 10,            *)
(* 25 mm = 2500).  Means and percentages are exact rationals <<num, den>>  *)
(* in lowest terms with den > 0.  A Python dict is a record                *)
(* [keys |-> insertion-ordered sequence of keys, val |-> key -> value];    *)
(* None is the empty sequence <<>> and a value x that may be None is <<x>>.*)
(* A date key 'YYYYMMDD' is the integer YYYYMMDD.                          *)
(***************************************************************************)
EXTENDS Integers, Sequences, FiniteSets, TLC

VARIABLES
    pc,               \* position of the script run
    current_year,     \* datetime.now().year
    target_month,     \* target_date.month
    target_day,       \* target_date.day
    latitude,         \* <<>> (None) or <<lat>>
    longitude,        \* <<>> (None) or <<lon>>
    nasa_data,        \* result of fetch_nasa_power_data
    historical_data,  \* result of process_nasa_data
    stats,            \* result of calculate_statistics
    predictions,      \* result of predict_conditions
    recommendations,  \* the advisory list
    packing_items,    \* result of get_packing_checklist
    calls,            \* the functions invoked so far, in order
    ui                \* the user-visible status messages, in order

vars == <<pc, current_year, target_month, target_day, latitude, longitude,
          nasa_data, historical_data, stats, predictions, recommendations,
          packing_items, calls, ui>>

----------------------------------------------------------------------------
(* Bounds and program constants *)

\* start_year = current_year - 30
YearsBack == 30

\* 'rained': 1 if precip > 0.1 (hundredths of a millimetre)
RainThreshold == 10

\* extreme heat: temperature_c > 32
HeatThreshold == 32

\* extreme cold: temperature_c < 0
ColdThreshold == 0

\* heavy rain: precipitation_mm > 25 (hundredths of a millimetre)
HeavyRainThreshold == 2500

\* confidence 'High' if years_analyzed > 20
ConfidenceYears == 20

\* the last year a run may take place in
LastRunYear == 2027

\* the years the run may take place in
CurrentYears == 2026..LastRunYear

\* the target dates the user may pick, as <<month, day>>
Targets == {<<2, 29>>, <<3, 1>>}

\* the calendar days of every year the provider's series holds, in calendar
\* order, as <<month, day>> (February 29 in leap years only)
CoveredDays == << <<2, 28>>, <<2, 29>>, <<3, 1>> >>

----------------------------------------------------------------------------
(* Rationals *)

RECURSIVE GCD(_, _)
GCD(a, b) == IF b = 0 THEN a ELSE GCD(b, a % b)

Abs(x) == IF x < 0 THEN -x ELSE x

\* the rational n/d (d # 0) in lowest terms, denominator positive
Rat(n, d) ==
    LET g == GCD(Abs(n), Abs(d))
        s == IF d < 0 THEN -1 ELSE 1
    IN  <<(s * n) \div g, (s * d) \div g>>

RatLt(x, y) == x[1] * y[2] < y[1] * x[2]
RatGt(x, y) == RatLt(y, x)
RatMul(x, y) == Rat(x[1] * y[1], x[2] * y[2])
RatInt(k) == <<k, 1>>

----------------------------------------------------------------------------
(* Python dicts *)

EmptyDict == [keys |-> <<>>, val |-> <<>>]

\* d.get(k, default)
DictGet(d, k, default) == IF k \in DOMAIN d.val THEN d.val[k] ELSE default

\* the sum of f[i] over i in 1..n
RECURSIVE SumTo(_, _)
SumTo(f, n) == IF n = 0 THEN 0 ELSE f[n] + SumTo(f, n - 1)

\* sum(s) for a sequence of integers
Sum(s) == SumTo(s, Len(s))

----------------------------------------------------------------------------
(* The data provider: the calendar and the daily series it returns *)

IsLeapYear(y) == y % 4 = 0 /\ (y % 100 # 0 \/ y % 400 = 0)

DaysInMonth(y, m) ==
    IF m = 2 THEN (IF IsLeapYear(y) THEN 29 ELSE 28)
    ELSE IF m \in {4, 6, 9, 11} THEN 30 ELSE 31

\* the key 'YYYYMMDD' of a date
DateKey(y, m, d) == y * 10000 + m * 100 + d

\* what one year of the series holds for each of its days: every field is
\* the set of the values present (empty: no entry for the date)
Mild    == [t |-> {20}, mx |-> {25}, mn |-> {15}, p |-> {0},    w |-> {5}]
Wet     == [t |-> {20}, mx |-> {},   mn |-> {},   p |-> {2501}, w |-> {9}]
Drizzle == [t |-> {33}, mx |-> {36}, mn |-> {30}, p |-> {11},   w |-> {13}]
Trace   == [t |-> {32}, mx |-> {35}, mn |-> {},   p |-> {10},   w |-> {12}]
Frost   == [t |-> {-1}, mx |-> {2},  mn |-> {-4}, p |-> {2500}, w |-> {16}]
Zero    == [t |-> {0},  mx |-> {},   mn |-> {-3}, p |-> {},     w |-> {}]
NoTemp  == [t |-> {},   mx |-> {30}, mn |-> {10}, p |-> {500},  w |-> {7}]

\* <<A, B>>: the first years of a series follow A, the later ones B
ProfilePairs ==
    { <<Mild, Wet>>, <<Drizzle, Trace>>, <<Frost, Zero>>, <<Wet, NoTemp>>,
      <<Mild, Drizzle>>, <<Zero, Mild>>, <<Frost, Wet>>, <<NoTemp, Mild>>,
      <<Frost, Drizzle>>, <<Mild, Trace>> }

\* the covered days of one year in calendar order, as <<month, day>>
YearDays(y) ==
    LET ok(md) == md[2] <= DaysInMonth(y, md[1])
    IN  SelectSeq(CoveredDays, ok)

\* the date keys of years first .. first + n - 1, ascending
RECURSIVE SeriesKeys(_, _)
SeriesKeys(first, n) ==
    IF n = 0 THEN <<>>
    ELSE LET y == first + n - 1
             days == YearDays(y)
         IN  SeriesKeys(first, n - 1)
               \o [i \in 1..Len(days) |-> DateKey(y, days[i][1], days[i][2])]

\* the JSON body of a successful response for start_year .. end_year: the
\* provider has data for the first `covered` years of the range, the first
\* `split` of them following pair[1] and the others pair[2]
Payload(start_year, split, covered, pair) ==
    LET all == SeriesKeys(start_year, covered)
        prof(k) == IF (k \div 10000) - start_year < split
                   THEN pair[1] ELSE pair[2]
        dict(field) ==
            LET has(k) == prof(k)[field] # {}
                ks == SelectSeq(all, has)
            IN  [keys |-> ks,
                 val  |-> [k \in {ks[i] : i \in 1..Len(ks)} |->
                             CHOOSE v \in prof(k)[field] : TRUE]]
    IN  [properties |-> [parameter |->
            [T2M |-> dict("t"), T2M_MAX |-> dict("mx"), T2M_MIN |-> dict("mn"),
             PRECTOTCORR |-> dict("p"), WS2M |-> dict("w")]]]

\* a JSON body without the 'properties' member
MalformedPayload == [messages |-> <<"no data">>]

----------------------------------------------------------------------------
(* process_nasa_data *)

\* datetime.strptime(date_str, '%Y%m%d') for a key that is a calendar date
strptime(date_str) ==
    [year  |-> date_str \div 10000,
     month |-> (date_str \div 100) % 100,
     day   |-> date_str % 100]

\* faulty variant: the day of the month is not compared
DateMatches_MonthOnly(date_obj, month, day) == date_obj.month = month

\* faulty variant: in a year without February 29 the 28th stands in for it
DateMatches_PadLeapDay(date_obj, month, day) ==
    \/ date_obj.month = month /\ date_obj.day = day
    \/ /\ month = 2 /\ day = 29
       /\ date_obj.month = 2 /\ date_obj.day = 28
       /\ ~IsLeapYear(date_obj.year)

\* faulty variant: only the years of the request window of the current clock
\* are admitted
DateMatches_ClockWindow(date_obj, month, day) ==
    /\ date_obj.month = month /\ date_obj.day = day
    /\ date_obj.year >= current_year - YearsBack

\* date_obj.month == target_month and date_obj.day == target_day
DateMatches(date_obj, month, day) ==
    date_obj.month = month /\ date_obj.day = day

\* faulty variant: the threshold itself counts as rain
Rained_AtLeast(precip) == IF precip >= RainThreshold THEN 1 ELSE 0

\* 1 if precip > 0.1 else 0
Rained(precip) == IF precip > RainThreshold THEN 1 ELSE 0

\* parameters.get(name, {})
ParamGet(parameters, name) ==
    IF name \in DOMAIN parameters THEN parameters[name] ELSE EmptyDict

\* the record appended for a matching date
MakeRecord(parameters, date_str) ==
    LET temp == ParamGet(parameters, "T2M").val[date_str]
        precip == DictGet(ParamGet(parameters, "PRECTOTCORR"), date_str, 0)
        wind == DictGet(ParamGet(parameters, "WS2M"), date_str, 0)
        date_obj == strptime(date_str)
    IN  [year |-> date_obj.year,
         date |-> date_obj,
         temperature_c |-> temp,
         temp_max_c |-> DictGet(ParamGet(parameters, "T2M_MAX"), date_str, temp),
         temp_min_c |-> DictGet(ParamGet(parameters, "T2M_MIN"), date_str, temp),
         precipitation_mm |-> precip,
         rained |-> Rained(precip),
         wind_speed_ms |-> wind]

\* faulty variant: a date is admitted only when precipitation and wind are present too
process_nasa_data_RequireAll(data, month, day) ==
    IF "properties" \notin DOMAIN data
    THEN <<>>
    ELSE LET parameters == data.properties.parameter
             temp_keys == ParamGet(parameters, "T2M").keys
             match(k) ==
                /\ DateMatches(strptime(k), month, day)
                /\ k \in DOMAIN ParamGet(parameters, "PRECTOTCORR").val
                /\ k \in DOMAIN ParamGet(parameters, "WS2M").val
             hits == SelectSeq(temp_keys, match)
         IN  << [i \in 1..Len(hits) |-> MakeRecord(parameters, hits[i])] >>

\* faulty variant: the records list is a module-level list that is never
\* cleared, so a call starts from the records of the samples built so far
process_nasa_data_ModuleRecords(data, month, day) ==
    IF "properties" \notin DOMAIN data
    THEN <<>>
    ELSE LET parameters == data.properties.parameter
             temp_keys == ParamGet(parameters, "T2M").keys
             match(k) == DateMatches(strptime(k), month, day)
             hits == SelectSeq(temp_keys, match)
             built == {q \in DOMAIN historical_data : historical_data[q] # <<>>}
             kept == IF built = {} THEN <<>>
                     ELSE historical_data[CHOOSE q \in built : TRUE][1]
         IN  << kept \o [i \in 1..Len(hits) |-> MakeRecord(parameters, hits[i])] >>

\* process_nasa_data(nasa_data, target_month, target_day): <<df>>, or <<>>
\* (None) when the body raises
process_nasa_data(data, month, day) ==
    IF "properties" \notin DOMAIN data
    THEN <<>>
    ELSE LET parameters == data.properties.parameter
             temp_keys == ParamGet(parameters, "T2M").keys
             match(k) == DateMatches(strptime(k), month, day)
             hits == SelectSeq(temp_keys, match)
         IN  << [i \in 1..Len(hits) |-> MakeRecord(parameters, hits[i])] >>

----------------------------------------------------------------------------
(* calculate_statistics *)

\* df[name] as a sequence
Col(df, name) == [i \in 1..Len(df) |-> df[i][name]]

SeqMin(s) == CHOOSE x \in {s[i] : i \in 1..Len(s)} :
                 \A j \in 1..Len(s) : x <= s[j]
SeqMax(s) == CHOOSE x \in {s[i] : i \in 1..Len(s)} :
                 \A j \in 1..Len(s) : x >= s[j]

\* Series.mean() of a non-empty column
Mean(s) == Rat(Sum(s), Len(s))

\* A float that may involve a standard deviation: a + s * sqrt(q) with a, q
\* rationals, q >= 0 and s in {-1, 0, 1} (s = 0 when q = 0), or not-a-number
NaN == [nan |-> TRUE, a |-> <<0, 1>>, s |-> 0, q |-> <<0, 1>>]
Num(a) == [nan |-> FALSE, a |-> a, s |-> 0, q |-> <<0, 1>>]
Surd(a, s, q) ==
    [nan |-> FALSE, a |-> a, s |-> IF q[1] = 0 THEN 0 ELSE s,
     q |-> IF s = 0 THEN <<0, 1>> ELSE q]

\* the sample (N - 1) variance of a column of at least two values
Variance(s) ==
    LET n == Len(s)
        sq == [i \in 1..n |-> s[i] * s[i]]
    IN  Rat(n * Sum(sq) - Sum(s) * Sum(s), n * (n - 1))

\* Series.std(): not-a-number for a single value
Std(s) == IF Len(s) < 2 THEN NaN ELSE Surd(<<0, 1>>, 1, Variance(s))

\* faulty variant: the fraction is not scaled to a percentage
Percentage_Fraction(count, n) == Rat(count, n)

\* faulty variant: the fraction is scaled by 1000
Percentage_PerMille(count, n) == Rat(count * 1000, n)

\* (count / len(df)) * 100
Percentage(count, n) == Rat(count * 100, n)

\* df['rained'].sum()
RainDays(df) == Sum(Col(df, "rained"))

\* faulty variant: the mean is taken over all the days
AvgRainAmount_AllDays(df) ==
    IF Sum(Col(df, "rained")) > 0
    THEN Rat(Sum(Col(df, "precipitation_mm")), Len(df))
    ELSE <<0, 1>>

\* df[df['rained'] == 1]['precipitation_mm'].mean() if df['rained'].sum() > 0
\* else 0
AvgRainAmount(df) ==
    LET isRain(r) == r.rained = 1
        rainy == SelectSeq(df, isRain)
    IN  IF RainDays(df) > 0
        THEN Mean(Col(rainy, "precipitation_mm"))
        ELSE <<0, 1>>

IsExtremeHeat(temp) == temp > HeatThreshold
\* faulty variant: freezing point itself counts as extreme cold
IsExtremeCold_AtMost(temp) == temp <= ColdThreshold

IsExtremeCold(temp) == temp < ColdThreshold
\* faulty variant: any precipitation counts as heavy rain
IsHeavyRain_AnyPrecip(precip) == precip > 0

IsHeavyRain(precip) == precip > HeavyRainThreshold

\* calculate_statistics(df): <<stats>>, or <<>> when it raises (a frame built
\* from no records has no columns, so df['temperature_c'] is a KeyError)
calculate_statistics(df) ==
    LET temp == Col(df, "temperature_c")
        precip == Col(df, "precipitation_mm")
        wind == Col(df, "wind_speed_ms")
        n == Len(df)
    IN  IF n = 0 THEN <<>> ELSE
        <<[temp_mean |-> Mean(temp),
         temp_std |-> Std(temp),
         temp_min |-> SeqMin(temp),
         temp_max |-> SeqMax(temp),
         temp_max_mean |-> Mean(Col(df, "temp_max_c")),
         temp_min_mean |-> Mean(Col(df, "temp_min_c")),
         rain_probability |-> Percentage(RainDays(df), n),
         avg_rain_amount |-> AvgRainAmount(df),
         total_rain_days |-> RainDays(df),
         wind_mean |-> Mean(wind),
         wind_std |-> Std(wind),
         wind_max |-> SeqMax(wind),
         extreme_heat_days |-> Percentage(Len(SelectSeq(temp, IsExtremeHeat)), n),
         extreme_cold_days |-> Percentage(Len(SelectSeq(temp, IsExtremeCold)), n),
         heavy_rain_days |-> Percentage(Len(SelectSeq(precip, IsHeavyRain)), n),
         years_analyzed |-> n]>>

----------------------------------------------------------------------------
(* predict_conditions *)

\* faulty variant: the values are not sorted first
Percentile_Unsorted(values, p) ==
    LET n == Len(values)
        below == (p * (n - 1)) \div 100
        part == (p * (n - 1)) % 100
        lo == values[below + 1]
        hi == IF below + 2 <= n THEN values[below + 2] ELSE lo
    IN  Rat(100 * lo + part * (hi - lo), 100)

\* faulty variant: the lower neighbour is taken, without interpolation
Percentile_Lower(values, p) ==
    LET sorted == SortSeq(values, <)
    IN  Rat(sorted[((p * (Len(sorted) - 1)) \div 100) + 1], 1)

\* np.percentile(values, p): linear interpolation at rank p/100 * (n - 1)
\* between the adjacent sorted values
Percentile(values, p) ==
    LET sorted == SortSeq(values, <)
        n == Len(sorted)
        below == (p * (n - 1)) \div 100
        part == (p * (n - 1)) % 100
        lo == sorted[below + 1]
        hi == IF below + 2 <= n THEN sorted[below + 2] ELSE lo
    IN  Rat(100 * lo + part * (hi - lo), 100)

\* faulty variant: 20 years are enough for 'High'
Confidence_AtLeast(years_analyzed) ==
    IF years_analyzed >= ConfidenceYears THEN "High" ELSE "Medium"

\* 'High' if stats['years_analyzed'] > 20 else 'Medium'
Confidence(years_analyzed) ==
    IF years_analyzed > ConfidenceYears THEN "High" ELSE "Medium"

\* x > 0 for a float x (False for not-a-number)
Positive(x) ==
    /\ ~x.nan
    /\ CASE x.s = 0  -> x.a[1] > 0
         [] x.s = 1  -> x.a[1] >= 0 \/ RatLt(RatMul(x.a, x.a), x.q)
         [] x.s = -1 -> x.a[1] > 0 /\ RatLt(x.q, RatMul(x.a, x.a))

\* faulty variant: the lower bound is not clamped
Max0_NoClamp(x) == x

\* max(0, x): x when x > 0, else the first argument 0
Max0(x) == IF Positive(x) THEN x ELSE Num(<<0, 1>>)

\* mean - std and mean + std
MinusStd(mean, std) == IF std.nan THEN NaN ELSE Surd(mean, -1, std.q)
PlusStd(mean, std) == IF std.nan THEN NaN ELSE Surd(mean, 1, std.q)

\* predict_conditions(df, stats)
predict_conditions(df, st) ==
    [temperature |->
        [expected |-> st.temp_mean,
         likely_range_low |-> Percentile(Col(df, "temperature_c"), 25),
         likely_range_high |-> Percentile(Col(df, "temperature_c"), 75),
         possible_min |-> st.temp_min,
         possible_max |-> st.temp_max],
     precipitation |->
        [probability |-> st.rain_probability,
         expected_amount |-> st.avg_rain_amount,
         confidence |-> Confidence(st.years_analyzed)],
     wind |->
        [expected |-> st.wind_mean,
         likely_range_low |-> Max0(MinusStd(st.wind_mean, st.wind_std)),
         likely_range_high |-> PlusStd(st.wind_mean, st.wind_std),
         possible_max |-> st.wind_max]]

----------------------------------------------------------------------------
(* Planning recommendations and packing checklist *)

\* x > k and x < k for a rational x and an integer k
Gt(x, k) == RatGt(x, RatInt(k))
Lt(x, k) == RatLt(x, RatInt(k))

\* x >= k for a rational x and an integer k (used by the faulty variants)
Ge(x, k) == ~RatLt(x, RatInt(k))

\* faulty variant: the thresholds themselves belong to the higher bucket
RainAdvice_AtLeast(probability) ==
    IF Ge(probability, 70) THEN <<"rain_critical">>
    ELSE IF Ge(probability, 50) THEN <<"rain_high">>
    ELSE IF Ge(probability, 30) THEN <<"rain_moderate">>
    ELSE <<"rain_low">>

RainAdvice(probability) ==
    IF Gt(probability, 70) THEN <<"rain_critical">>
    ELSE IF Gt(probability, 50) THEN <<"rain_high">>
    ELSE IF Gt(probability, 30) THEN <<"rain_moderate">>
    ELSE <<"rain_low">>

\* faulty variant: exactly 32 degrees is very hot
TempAdvice_AtLeast(temp_pred) ==
    IF Ge(temp_pred, 32) THEN <<"very_hot">>
    ELSE IF Gt(temp_pred, 28) THEN <<"hot">>
    ELSE IF Lt(temp_pred, 5) THEN <<"cold">>
    ELSE IF Lt(temp_pred, 15) THEN <<"cool">>
    ELSE <<>>

TempAdvice(temp_pred) ==
    IF Gt(temp_pred, 32) THEN <<"very_hot">>
    ELSE IF Gt(temp_pred, 28) THEN <<"hot">>
    ELSE IF Lt(temp_pred, 5) THEN <<"cold">>
    ELSE IF Lt(temp_pred, 15) THEN <<"cool">>
    ELSE <<>>

\* faulty variant: exactly 15 percent raises the warning
HeatWaveAdvice_AtLeast(extreme_heat_days) ==
    IF Ge(extreme_heat_days, 15) THEN <<"heat_wave">> ELSE <<>>

HeatWaveAdvice(extreme_heat_days) ==
    IF Gt(extreme_heat_days, 15) THEN <<"heat_wave">> ELSE <<>>

\* faulty variant: the thresholds themselves belong to the higher bucket
WindAdvice_AtLeast(expected) ==
    IF Ge(expected, 12) THEN <<"strong_winds">>
    ELSE IF Ge(expected, 8) THEN <<"breezy">>
    ELSE <<>>

WindAdvice(expected) ==
    IF Gt(expected, 12) THEN <<"strong_winds">>
    ELSE IF Gt(expected, 8) THEN <<"breezy">>
    ELSE <<>>

\* faulty variant: the heat-wave rule is one more elif of the temperature
\* chain, reached only when no temperature message was given
Recommendations_HeatElif(pred, st) ==
    RainAdvice(pred.precipitation.probability)
      \o (IF TempAdvice(pred.temperature.expected) # <<>>
          THEN TempAdvice(pred.temperature.expected)
          ELSE HeatWaveAdvice(st.extreme_heat_days))
      \o WindAdvice(pred.wind.expected)

\* the recommendations list built from predictions and stats
Recommendations(pred, st) ==
    RainAdvice(pred.precipitation.probability)
      \o TempAdvice(pred.temperature.expected)
      \o HeatWaveAdvice(st.extreme_heat_days)
      \o WindAdvice(pred.wind.expected)

\* faulty variant: the compact umbrella is packed from a rain probability of 20
RainItems_From20(rain_prob) ==
    IF Gt(rain_prob, 70) THEN <<"umbrella_high", "rain_jacket">>
    ELSE IF Gt(rain_prob, 50) THEN <<"umbrella_moderate">>
    ELSE IF Gt(rain_prob, 20) THEN <<"compact_umbrella">>
    ELSE <<>>

RainItems(rain_prob) ==
    IF Gt(rain_prob, 70) THEN <<"umbrella_high", "rain_jacket">>
    ELSE IF Gt(rain_prob, 50) THEN <<"umbrella_moderate">>
    ELSE IF Gt(rain_prob, 30) THEN <<"compact_umbrella">>
    ELSE <<>>

TempItems(temp) ==
    IF Gt(temp, 32)
    THEN <<"large_cooler", "extra_water", "sunscreen_spf50", "sunglasses_hat">>
    ELSE IF Gt(temp, 28) THEN <<"cooler", "water_bottles", "sunscreen">>
    ELSE IF Lt(temp, 5) THEN <<"winter_coat", "gloves_hat", "thermos">>
    ELSE IF Lt(temp, 15) THEN <<"jacket", "hot_beverages">>
    ELSE <<>>

\* faulty variant: the thresholds of the wind advisory are used
WindItems_AdvisoryThresholds(wind) ==
    IF Gt(wind, 12) THEN <<"tent_stakes", "indoor_backup">>
    ELSE IF Gt(wind, 8) THEN <<"weights", "secure_tablecloths">>
    ELSE <<>>

WindItems(wind) ==
    IF Gt(wind, 15) THEN <<"tent_stakes", "indoor_backup">>
    ELSE IF Gt(wind, 10) THEN <<"weights", "secure_tablecloths">>
    ELSE <<>>

\* faulty variant: insect repellent whenever rain is likely, whatever the
\* temperature
GeneralItems_NoTemp(temp, rain_prob) ==
    (IF Gt(rain_prob, 40) THEN <<"insect_repellent">> ELSE <<>>)
      \o (IF Lt(rain_prob, 20) /\ Gt(temp, 25)
          THEN <<"shade_structures">> ELSE <<>>)

\* faulty variant: the shade rule reaches up to a rain probability of 50
GeneralItems_Overlap(temp, rain_prob) ==
    (IF Gt(rain_prob, 40) /\ Gt(temp, 25) THEN <<"insect_repellent">> ELSE <<>>)
      \o (IF Lt(rain_prob, 50) /\ Gt(temp, 25)
          THEN <<"shade_structures">> ELSE <<>>)

GeneralItems(temp, rain_prob) ==
    (IF Gt(rain_prob, 40) /\ Gt(temp, 25) THEN <<"insect_repellent">> ELSE <<>>)
      \o (IF Lt(rain_prob, 20) /\ Gt(temp, 25)
          THEN <<"shade_structures">> ELSE <<>>)

\* faulty variant: the compound rules are left out
get_packing_checklist_NoGeneral(temp, rain_prob, wind) ==
    RainItems(rain_prob) \o TempItems(temp) \o WindItems(wind)

get_packing_checklist(temp, rain_prob, wind) ==
    RainItems(rain_prob) \o TempItems(temp) \o WindItems(wind)
      \o GeneralItems(temp, rain_prob)

----------------------------------------------------------------------------
(* The analysis run *)

Init ==
    /\ pc = "analyze"
    /\ current_year \in CurrentYears
    /\ \E target \in Targets : target_month = target[1] /\ target_day = target[2]
    /\ \E loc \in {<<>>, <<40>>} : latitude = loc /\ longitude = loc
    /\ nasa_data = <<>>
    /\ historical_data = <<>>
    /\ stats = <<>>
    /\ predictions = <<>>
    /\ recommendations = <<>>
    /\ packing_items = <<>>
    /\ calls = <<>>
    /\ ui = <<>>

\* if latitude is None or longitude is None: st.error(...)
LocationMissing ==
    /\ pc = "analyze"
    /\ latitude = <<>> \/ longitude = <<>>
    /\ ui' = Append(ui, "location_error")
    /\ pc' = "done"
    /\ UNCHANGED <<current_year, target_month, target_day, latitude, longitude,
                   nasa_data, historical_data, stats, predictions,
                   recommendations, packing_items, calls>>

\* fetch_nasa_power_data: status 200, the body is the daily series
FetchSeries ==
    /\ pc = "analyze"
    /\ latitude # <<>> /\ longitude # <<>>
    /\ \E covered \in 0..YearsBack, pair \in ProfilePairs :
         \E split \in 0..covered :
            nasa_data' = <<Payload(current_year - YearsBack, split, covered, pair)>>
    /\ calls' = Append(calls, "fetch_nasa_power_data")
    /\ pc' = "fetched"
    /\ UNCHANGED <<current_year, target_month, target_day, latitude, longitude,
                   historical_data, stats, predictions, recommendations,
                   packing_items, ui>>

\* fetch_nasa_power_data: status 200, a body without 'properties'
FetchOther ==
    /\ pc = "analyze"
    /\ latitude # <<>> /\ longitude # <<>>
    /\ nasa_data' = <<MalformedPayload>>
    /\ calls' = Append(calls, "fetch_nasa_power_data")
    /\ pc' = "fetched"
    /\ UNCHANGED <<current_year, target_month, target_day, latitude, longitude,
                   historical_data, stats, predictions, recommendations,
                   packing_items, ui>>

\* faulty variant: a failed request is attempted again
FetchError_Retry ==
    /\ pc = "analyze"
    /\ latitude # <<>> /\ longitude # <<>>
    /\ nasa_data' = <<>>
    /\ \E msg \in {"api_error", "fetch_exception"} : ui' = Append(ui, msg)
    /\ calls' = Append(calls, "fetch_nasa_power_data")
    /\ pc' = "analyze"
    /\ UNCHANGED <<current_year, target_month, target_day, latitude, longitude,
                   historical_data, stats, predictions, recommendations,
                   packing_items>>

\* fetch_nasa_power_data: a status other than 200, or requests.get raises
FetchError ==
    /\ pc = "analyze"
    /\ latitude # <<>> /\ longitude # <<>>
    /\ nasa_data' = <<>>
    /\ \E msg \in {"api_error", "fetch_exception"} : ui' = Append(ui, msg)
    /\ calls' = Append(calls, "fetch_nasa_power_data")
    /\ pc' = "fetched"
    /\ UNCHANGED <<current_year, target_month, target_day, latitude, longitude,
                   historical_data, stats, predictions, recommendations,
                   packing_items>>

\* faulty variant: after the failure message the run goes on to the check of
\* the sample
FetchFailed_FallThrough ==
    /\ pc = "fetched"
    /\ nasa_data = <<>>
    /\ ui' = Append(ui, "fetch_failed")
    /\ pc' = "processed"
    /\ UNCHANGED <<current_year, target_month, target_day, latitude, longitude,
                   nasa_data, historical_data, stats, predictions,
                   recommendations, packing_items, calls>>

\* if nasa_data: ... else: st.error("Failed to fetch NASA data")
FetchFailed ==
    /\ pc = "fetched"
    /\ nasa_data = <<>>
    /\ ui' = Append(ui, "fetch_failed")
    /\ pc' = "done"
    /\ UNCHANGED <<current_year, target_month, target_day, latitude, longitude,
                   nasa_data, historical_data, stats, predictions,
                   recommendations, packing_items, calls>>

\* historical_data = process_nasa_data(nasa_data, target_month, target_day)
Process ==
    /\ pc = "fetched"
    /\ nasa_data # <<>>
    /\ historical_data' = process_nasa_data(nasa_data[1], target_month, target_day)
    /\ ui' = IF historical_data' = <<>> THEN Append(ui, "processing_error") ELSE ui
    /\ calls' = Append(calls, "process_nasa_data")
    /\ pc' = "processed"
    /\ UNCHANGED <<current_year, target_month, target_day, latitude, longitude,
                   nasa_data, stats, predictions, recommendations, packing_items>>

\* faulty variant: the length of the frame is not checked
HasData_NotNone == historical_data # <<>>

\* if historical_data is not None and len(historical_data) > 0
HasData == historical_data # <<>> /\ Len(historical_data[1]) > 0

\* else: st.error("No data available for the selected date")
NoData ==
    /\ pc = "processed"
    /\ ~HasData
    /\ ui' = Append(ui, "no_data")
    /\ pc' = "done"
    /\ UNCHANGED <<current_year, target_month, target_day, latitude, longitude,
                   nasa_data, historical_data, stats, predictions,
                   recommendations, packing_items, calls>>

\* stats = calculate_statistics(historical_data); an exception it raises
\* ends the script run
Statistics ==
    /\ pc = "processed"
    /\ HasData
    /\ stats' = calculate_statistics(historical_data[1])
    /\ calls' = Append(calls, "calculate_statistics")
    /\ pc' = IF stats' = <<>> THEN "crashed" ELSE "statistics"
    /\ UNCHANGED <<current_year, target_month, target_day, latitude, longitude,
                   nasa_data, historical_data, predictions, recommendations,
                   packing_items, ui>>

\* predictions = predict_conditions(historical_data, stats); st.success(...)
Predict ==
    /\ pc = "statistics"
    /\ predictions' = <<predict_conditions(historical_data[1], stats[1])>>
    /\ calls' = Append(calls, "predict_conditions")
    /\ ui' = Append(ui, "analysis_complete")
    /\ pc' = "predicted"
    /\ UNCHANGED <<current_year, target_month, target_day, latitude, longitude,
                   nasa_data, historical_data, stats, recommendations,
                   packing_items>>

\* the recommendations list is built and shown
Recommend ==
    /\ pc = "predicted"
    /\ recommendations' = Recommendations(predictions[1], stats[1])
    /\ calls' = Append(calls, "recommendations")
    /\ pc' = "recommended"
    /\ UNCHANGED <<current_year, target_month, target_day, latitude, longitude,
                   nasa_data, historical_data, stats, predictions,
                   packing_items, ui>>

\* packing_items = get_packing_checklist(...); the list, or the
\* "Perfect conditions" message when it is empty
Packing ==
    /\ pc = "recommended"
    /\ packing_items' =
          get_packing_checklist(predictions[1].temperature.expected,
                                predictions[1].precipitation.probability,
                                predictions[1].wind.expected)
    /\ ui' = IF packing_items' = <<>> THEN Append(ui, "perfect_conditions") ELSE ui
    /\ calls' = Append(calls, "get_packing_checklist")
    /\ pc' = "done"
    /\ UNCHANGED <<current_year, target_month, target_day, latitude, longitude,
                   nasa_data, historical_data, stats, predictions,
                   recommendations>>

Next ==
    \/ LocationMissing
    \/ FetchSeries
    \/ FetchOther
    \/ FetchError
    \/ FetchFailed
    \/ Process
    \/ NoData
    \/ Statistics
    \/ Predict
    \/ Recommend
    \/ Packing

Spec == Init /\ [][Next]_vars

----------------------------------------------------------------------------
(* Analysis requests served side by side.  In SpecRequests every variable   *)
(* but current_year holds one value per request: each script run has its    *)
(* own namespace.  current_year is the clock the runs read; the provider's  *)
(* mappings may list their dates in either order.                           *)

\* the requests in progress
Requests == {"a", "b"}

\* the sequence s back to front
Reverse(s) == [i \in 1..Len(s) |-> s[Len(s) + 1 - i]]

\* the body of Payload with the dates of every mapping listed in `order`
PayloadInOrder(order, start_year, split, covered, pair) ==
    LET parameter == Payload(start_year, split, covered, pair).properties.parameter
        listed(d) == [keys |-> IF order = "descending" THEN Reverse(d.keys)
                               ELSE d.keys,
                      val  |-> d.val]
    IN  [properties |-> [parameter |->
            [name \in DOMAIN parameter |-> listed(parameter[name])]]]

\* the series a request may receive: no year at all, or two years that
\* follow the two profiles of a pair, in either order
RequestPayloads(start_year) ==
    {PayloadInOrder("ascending", start_year, 0, 0, <<Mild, Wet>>)}
      \cup {PayloadInOrder(order, start_year, 1, 2, pair) :
               order \in {"ascending", "descending"},
               pair \in {<<Frost, Drizzle>>, <<Mild, Wet>>}}

InitRequests ==
    /\ pc = [r \in Requests |-> "analyze"]
    /\ current_year \in CurrentYears
    /\ \E target \in [Requests -> Targets] :
          /\ target_month = [r \in Requests |-> target[r][1]]
          /\ target_day = [r \in Requests |-> target[r][2]]
    /\ latitude = [r \in Requests |-> <<40>>]
    /\ longitude = [r \in Requests |-> <<40>>]
    /\ nasa_data = [r \in Requests |-> <<>>]
    /\ historical_data = [r \in Requests |-> <<>>]
    /\ stats = [r \in Requests |-> <<>>]
    /\ predictions = [r \in Requests |-> <<>>]
    /\ recommendations = [r \in Requests |-> <<>>]
    /\ packing_items = [r \in Requests |-> <<>>]
    /\ calls = [r \in Requests |-> <<>>]
    /\ ui = [r \in Requests |-> <<>>]

\* datetime.now().year moves on to the next year
Tick ==
    /\ current_year < LastRunYear
    /\ current_year' = current_year + 1
    /\ UNCHANGED <<pc, target_month, target_day, latitude, longitude, nasa_data,
                   historical_data, stats, predictions, recommendations,
                   packing_items, calls, ui>>

\* request r: fetch_nasa_power_data returns the daily series
ReqFetch(r) ==
    /\ pc[r] = "analyze"
    /\ latitude[r] # <<>> /\ longitude[r] # <<>>
    /\ \E body \in RequestPayloads(current_year - YearsBack) :
          nasa_data' = [nasa_data EXCEPT ![r] = <<body>>]
    /\ calls' = [calls EXCEPT ![r] = Append(@, "fetch_nasa_power_data")]
    /\ pc' = [pc EXCEPT ![r] = "fetched"]
    /\ UNCHANGED <<current_year, target_month, target_day, latitude, longitude,
                   historical_data, stats, predictions, recommendations,
                   packing_items, ui>>

\* request r: historical_data = process_nasa_data(nasa_data, ...)
ReqProcess(r) ==
    /\ pc[r] = "fetched"
    /\ nasa_data[r] # <<>>
    /\ historical_data' =
          [historical_data EXCEPT
              ![r] = process_nasa_data(nasa_data[r][1], target_month[r],
                                       target_day[r])]
    /\ calls' = [calls EXCEPT ![r] = Append(@, "process_nasa_data")]
    /\ pc' = [pc EXCEPT ![r] = "processed"]
    /\ UNCHANGED <<current_year, target_month, target_day, latitude, longitude,
                   nasa_data, stats, predictions, recommendations,
                   packing_items, ui>>

\* request r: if historical_data is not None and len(historical_data) > 0
ReqHasData(r) == historical_data[r] # <<>> /\ Len(historical_data[r][1]) > 0

\* request r: st.error("No data available for the selected date")
ReqNoData(r) ==
    /\ pc[r] = "processed"
    /\ ~ReqHasData(r)
    /\ ui' = [ui EXCEPT ![r] = Append(@, "no_data")]
    /\ pc' = [pc EXCEPT ![r] = "done"]
    /\ UNCHANGED <<current_year, target_month, target_day, latitude, longitude,
                   nasa_data, historical_data, stats, predictions,
                   recommendations, packing_items, calls>>

\* request r: stats = calculate_statistics(historical_data)
ReqStatistics(r) ==
    /\ pc[r] = "processed"
    /\ ReqHasData(r)
    /\ stats' = [stats EXCEPT ![r] = calculate_statistics(historical_data[r][1])]
    /\ calls' = [calls EXCEPT ![r] = Append(@, "calculate_statistics")]
    /\ pc' = [pc EXCEPT ![r] = "statistics"]
    /\ UNCHANGED <<current_year, target_month, target_day, latitude, longitude,
                   nasa_data, historical_data, predictions, recommendations,
                   packing_items, ui>>

\* request r: predictions = predict_conditions(historical_data, stats)
ReqPredict(r) ==
    /\ pc[r] = "statistics"
    /\ predictions' =
          [predictions EXCEPT
              ![r] = <<predict_conditions(historical_data[r][1], stats[r][1])>>]
    /\ calls' = [calls EXCEPT ![r] = Append(@, "predict_conditions")]
    /\ ui' = [ui EXCEPT ![r] = Append(@, "analysis_complete")]
    /\ pc' = [pc EXCEPT ![r] = "predicted"]
    /\ UNCHANGED <<current_year, target_month, target_day, latitude, longitude,
                   nasa_data, historical_data, stats, recommendations,
                   packing_items>>

\* request r: the recommendations list is built and shown
ReqRecommend(r) ==
    /\ pc[r] = "predicted"
    /\ recommendations' =
          [recommendations EXCEPT
              ![r] = Recommendations(predictions[r][1], stats[r][1])]
    /\ calls' = [calls EXCEPT ![r] = Append(@, "recommendations")]
    /\ pc' = [pc EXCEPT ![r] = "recommended"]
    /\ UNCHANGED <<current_year, target_month, target_day, latitude, longitude,
                   nasa_data, historical_data, stats, predictions,
                   packing_items, ui>>

\* request r: packing_items = get_packing_checklist(...), shown as a list or
\* as the "Perfect conditions" message
ReqPacking(r) ==
    /\ pc[r] = "recommended"
    /\ packing_items' =
          [packing_items EXCEPT
              ![r] = get_packing_checklist(predictions[r][1].temperature.expected,
                                           predictions[r][1].precipitation.probability,
                                           predictions[r][1].wind.expected)]
    /\ ui' = [ui EXCEPT ![r] = IF packing_items'[r] = <<>>
                               THEN Append(@, "perfect_conditions") ELSE @]
    /\ calls' = [calls EXCEPT ![r] = Append(@, "get_packing_checklist")]
    /\ pc' = [pc EXCEPT ![r] = "done"]
    /\ UNCHANGED <<current_year, target_month, target_day, latitude, longitude,
                   nasa_data, historical_data, stats, predictions,
                   recommendations>>

NextRequests ==
    \/ Tick
    \/ \E r \in Requests : ReqFetch(r)
    \/ \E r \in Requests : ReqProcess(r)
    \/ \E r \in Requests : ReqNoData(r)
    \/ \E r \in Requests : ReqStatistics(r)
    \/ \E r \in Requests : ReqPredict(r)
    \/ \E r \in Requests : ReqRecommend(r)
    \/ \E r \in Requests : ReqPacking(r)

SpecRequests == InitRequests /\ [][NextRequests]_vars

----------------------------------------------------------------------------
(* Views of the state used by the properties *)

\* f has been invoked in this run
Called(f) == \E i \in 1..Len(calls) : calls[i] = f

\* the fetch returned a body holding the parameter mapping
WellFormed == nasa_data # <<>> /\ "properties" \in DOMAIN nasa_data[1]

\* the provider's mapping of a variable (defined when WellFormed)
Provided(name) == nasa_data[1].properties.parameter[name].val

\* the date keys of the temperature mapping whose month and day are the target
MatchingDates ==
    {k \in DOMAIN Provided("T2M") : k % 10000 = target_month * 100 + target_day}

\* the sample (defined once process_nasa_data returned one)
Sample == historical_data[1]

\* the key 'YYYYMMDD' of a record's date
KeyOf(r) == r.date.year * 10000 + r.date.month * 100 + r.date.day

\* the positions of the sample's records that satisfy Test
Where(Test(_)) == {i \in 1..Len(Sample) : Test(Sample[i])}

----------------------------------------------------------------------------
(* Properties *)

\* C1: process_nasa_data returns a sample with exactly one record per date
\* key of the temperature mapping whose month and day equal the target and
\* no other record; all records share the target's (month, day); the sample
\* is empty, not None, when nothing matches.
C1_SampleIsExactlyTheMatchingDates ==
    (Called("process_nasa_data") /\ WellFormed) =>
        /\ historical_data # <<>>
        /\ \A k \in MatchingDates :
              Cardinality({i \in 1..Len(Sample) : KeyOf(Sample[i]) = k}) = 1
        /\ \A i \in 1..Len(Sample) :
              /\ KeyOf(Sample[i]) \in MatchingDates
              /\ Sample[i].date.month = target_month
              /\ Sample[i].date.day = target_day
              /\ Sample[i].year = Sample[i].date.year
              /\ Sample[i].temperature_c = Provided("T2M")[KeyOf(Sample[i])]
        /\ (MatchingDates = {} => Len(Sample) = 0)

\* C1 witness: a non-empty sample drawn from a mapping that also holds
\* temperature readings for other days, and precipitation for a target date
\* that has no temperature reading (and so no record)
C1_Witness ==
    /\ Called("process_nasa_data") /\ WellFormed
    /\ historical_data # <<>> /\ Len(Sample) > 0
    /\ Cardinality(DOMAIN Provided("T2M")) > Len(Sample)
    /\ \E k \in DOMAIN Provided("PRECTOTCORR") :
          /\ k % 10000 = target_month * 100 + target_day
          /\ k \notin DOMAIN Provided("T2M")
          /\ \A i \in 1..Len(Sample) : KeyOf(Sample[i]) # k

\* the sample is missing or has no record
EmptySample == historical_data = <<>> \/ Len(Sample) = 0

\* C2: when the aggregated sample is empty or there is none, the run never
\* invokes calculate_statistics or predict_conditions, produces no advisory
\* and no packing list, and can only go on to report the no-data error.
C2_EmptySampleIsRefused ==
    (Called("process_nasa_data") /\ EmptySample) =>
        /\ ~Called("calculate_statistics")
        /\ ~Called("predict_conditions")
        /\ ~Called("recommendations")
        /\ ~Called("get_packing_checklist")
        /\ stats = <<>> /\ predictions = <<>>
        /\ recommendations = <<>> /\ packing_items = <<>>
        /\ pc \in {"processed", "done"}
        /\ (pc = "processed" => ENABLED NoData /\ ~ENABLED Statistics)
        /\ (pc = "done" => ui[Len(ui)] = "no_data")

\* C2 witness: a run that ended on the no-data error with an empty sample
\* although the provider returned temperature readings
C2_Witness ==
    /\ Called("process_nasa_data") /\ WellFormed
    /\ historical_data # <<>> /\ Len(Sample) = 0
    /\ DOMAIN Provided("T2M") # {}
    /\ pc = "done" /\ ui = <<"no_data">>

\* the years for which the temperature mapping holds readings
SeriesYears == {k \div 10000 : k \in DOMAIN Provided("T2M")}

\* C3: with target February 29 the sample size, and years_analyzed, is the
\* number of leap years among the years of the series, not the number of
\* years: years without February 29 contribute no record.
C3_LeapDaySampleCountsLeapYears ==
    (Called("process_nasa_data") /\ WellFormed
       /\ target_month = 2 /\ target_day = 29) =>
        /\ historical_data # <<>>
        /\ Len(Sample) = Cardinality({y \in SeriesYears :
                            y % 4 = 0 /\ (y % 100 # 0 \/ y % 400 = 0)})
        /\ {Sample[i].year : i \in 1..Len(Sample)} \subseteq SeriesYears
        /\ (stats # <<>> => stats[1].years_analyzed = Len(Sample))

\* C3 witness: a series of 30 consecutive years, target February 29, and
\* statistics over fewer than 30 records
C3_Witness ==
    /\ WellFormed /\ target_month = 2 /\ target_day = 29
    /\ Cardinality(SeriesYears) = YearsBack
    /\ stats # <<>>
    /\ stats[1].years_analyzed \in {7, 8}

\* C4: a matched date with a temperature reading but no precipitation entry
\* (no wind entry) is still admitted, with precipitation 0 and rained 0
\* (wind speed 0).
C4_MissingPrecipWindDefaultToZero ==
    (Called("process_nasa_data") /\ WellFormed) =>
        /\ historical_data # <<>>
        /\ \A k \in MatchingDates :
              \E i \in 1..Len(Sample) :
                 /\ KeyOf(Sample[i]) = k
                 /\ (k \notin DOMAIN Provided("PRECTOTCORR") =>
                        Sample[i].precipitation_mm = 0 /\ Sample[i].rained = 0)
                 /\ (k \in DOMAIN Provided("PRECTOTCORR") =>
                        Sample[i].precipitation_mm = Provided("PRECTOTCORR")[k])
                 /\ (k \notin DOMAIN Provided("WS2M") =>
                        Sample[i].wind_speed_ms = 0)
                 /\ (k \in DOMAIN Provided("WS2M") =>
                        Sample[i].wind_speed_ms = Provided("WS2M")[k])

\* C4 witness: a sample holding a record for a date that has neither a
\* precipitation nor a wind entry
C4_Witness ==
    /\ Called("process_nasa_data") /\ WellFormed /\ historical_data # <<>>
    /\ \E i \in 1..Len(Sample) :
          /\ KeyOf(Sample[i]) \notin DOMAIN Provided("PRECTOTCORR")
          /\ KeyOf(Sample[i]) \notin DOMAIN Provided("WS2M")
          /\ Sample[i].precipitation_mm = 0
          /\ Sample[i].wind_speed_ms = 0

\* C5: in every record rained is 1 exactly when precipitation is strictly
\* greater than 0.1 mm, else 0; exactly 0.1 mm gives 0.
C5_RainedIffAboveTenthMillimetre ==
    (Called("process_nasa_data") /\ historical_data # <<>>) =>
        \A i \in 1..Len(Sample) :
           /\ Sample[i].rained \in {0, 1}
           /\ Sample[i].rained = 1 <=> Sample[i].precipitation_mm >= 11
           /\ (Sample[i].precipitation_mm = 10 => Sample[i].rained = 0)

\* C5 witness: one sample with a record of exactly 0.1 mm (rained 0) and a
\* record of 0.11 mm (rained 1)
C5_Witness ==
    /\ Called("process_nasa_data") /\ historical_data # <<>>
    /\ \E i, j \in 1..Len(Sample) :
          /\ Sample[i].precipitation_mm = 10 /\ Sample[i].rained = 0
          /\ Sample[j].precipitation_mm = 11 /\ Sample[j].rained = 1

\* the statistics (defined once calculate_statistics returned them)
St == stats[1]

\* the sum of the precipitation of the records at the positions in S
RECURSIVE PrecipOver(_)
PrecipOver(S) ==
    IF S = {} THEN 0
    ELSE LET i == CHOOSE j \in S : TRUE
         IN  Sample[i].precipitation_mm + PrecipOver(S \ {i})

\* the rational x equals num / den
Equals(x, num, den) == x[2] > 0 /\ x[1] * den = num * x[2]

\* x rounded to two decimals, in hundredths (x >= 0, halves rounded up)
Hundredths(x) == (200 * x[1] + x[2]) \div (2 * x[2])

RainedAt(r) == r.rained = 1
HotAt(r) == r.temperature_c > 32
FreezingAt(r) == r.temperature_c < 0
HeavyAt(r) == r.precipitation_mm > 2500

\* C6: rain_probability is 100 x (records with rained = 1) / (sample size),
\* the sample size being years_analyzed; 25 rained records of 30 give 83.33.
C6_RainProbabilityIsShareOfRainedYears ==
    (stats # <<>>) =>
        /\ St.years_analyzed = Len(Sample)
        /\ Equals(St.rain_probability,
                  100 * Cardinality(Where(RainedAt)), Len(Sample))
        /\ (Cardinality(Where(RainedAt)) = 25 /\ Len(Sample) = 30 =>
               Hundredths(St.rain_probability) = 8333)

\* C6 witness: statistics of a 30-year sample with 25 rained records
C6_Witness ==
    /\ stats # <<>>
    /\ Len(Sample) = 30
    /\ Cardinality(Where(RainedAt)) = 25
    /\ Hundredths(St.rain_probability) = 8333

\* 0 <= x <= 100 for a rational x
IsPercentage(x) == x[2] > 0 /\ 0 <= x[1] /\ x[1] <= 100 * x[2]

\* C7: every percentage field of the statistics lies in [0, 100], and
\* rain_probability is 0 if and only if no record has rained = 1.
C7_PercentagesInRange ==
    (stats # <<>>) =>
        /\ IsPercentage(St.rain_probability)
        /\ IsPercentage(St.extreme_heat_days)
        /\ IsPercentage(St.extreme_cold_days)
        /\ IsPercentage(St.heavy_rain_days)
        /\ St.rain_probability[1] = 0 <=> Where(RainedAt) = {}

\* C7 witness: a rain probability of 0 for a sample of several records that
\* all hold trace precipitation (positive, but not above 0.1 mm)
C7_Witness ==
    /\ stats # <<>>
    /\ Len(Sample) > 1
    /\ St.rain_probability[1] = 0
    /\ \A i \in 1..Len(Sample) : Sample[i].precipitation_mm > 0

\* C8: avg_rain_amount is the mean precipitation over exactly the records
\* with rained = 1, and 0 when no record rained: it is 0 whenever
\* rain_probability is 0, and a sample without rain days has statistics.
C8_AvgRainAmountOverRainedOnly ==
    (Called("calculate_statistics") /\ ~EmptySample) =>
        /\ stats # <<>>
        /\ (Where(RainedAt) = {} => St.avg_rain_amount = <<0, 1>>)
        /\ (Where(RainedAt) # {} =>
               Equals(St.avg_rain_amount, PrecipOver(Where(RainedAt)),
                      Cardinality(Where(RainedAt))))
        /\ (St.rain_probability[1] = 0 => St.avg_rain_amount[1] = 0)

\* C8 witness: a sample with rained records and with records of positive
\* precipitation that did not rain
C8_Witness ==
    /\ stats # <<>>
    /\ Where(RainedAt) # {}
    /\ \E i \in 1..Len(Sample) :
          Sample[i].rained = 0 /\ Sample[i].precipitation_mm > 0
    /\ St.avg_rain_amount = <<11, 1>>

\* C9: extreme_heat_days, extreme_cold_days and heavy_rain_days are
\* 100 x (records with temperature > 32, with temperature < 0, with
\* precipitation > 25 mm) / sample size, the inequalities strict and each
\* rate counted on its own.
C9_ExtremeRatesUseStrictThresholds ==
    (stats # <<>>) =>
        /\ Equals(St.extreme_heat_days,
                  100 * Cardinality(Where(HotAt)), Len(Sample))
        /\ Equals(St.extreme_cold_days,
                  100 * Cardinality(Where(FreezingAt)), Len(Sample))
        /\ Equals(St.heavy_rain_days,
                  100 * Cardinality(Where(HeavyAt)), Len(Sample))

\* C9 witness: a sample holding records of exactly 0 degrees and of exactly
\* 25 mm, neither counted, beside records below 0 degrees that are
C9_Witness ==
    /\ stats # <<>>
    /\ \E i, j \in 1..Len(Sample) :
          /\ Sample[i].temperature_c = 0
          /\ Sample[j].precipitation_mm = 2500
          /\ Sample[j].temperature_c < 0
    /\ St.heavy_rain_days[1] = 0
    /\ 0 < St.extreme_cold_days[1]
    /\ St.extreme_cold_days[1] < 100 * St.extreme_cold_days[2]

\* C10: the precipitation confidence is "High" if and only if
\* years_analyzed > 20, and "Medium" otherwise; exactly 20 years give
\* "Medium".
C10_ConfidenceHighIffMoreThanTwentyYears ==
    (predictions # <<>>) =>
        LET confidence == predictions[1].precipitation.confidence
        IN  /\ confidence \in {"High", "Medium"}
            /\ confidence = "High" <=> St.years_analyzed >= 21
            /\ St.years_analyzed = Len(Sample)
            /\ (Len(Sample) = 20 => confidence = "Medium")

\* C10 witness: predictions for a sample of exactly 20 years
C10_Witness ==
    /\ predictions # <<>>
    /\ Len(Sample) = 20
    /\ predictions[1].precipitation.confidence = "Medium"

\* the predictions (defined once predict_conditions returned them)
Pred == predictions[1]

\* the sum of a field, and of its squares, over the records at positions S
RECURSIVE FieldOver(_, _)
FieldOver(S, name) ==
    IF S = {} THEN 0
    ELSE LET i == CHOOSE j \in S : TRUE
         IN  Sample[i][name] + FieldOver(S \ {i}, name)

RECURSIVE SquaresOver(_, _)
SquaresOver(S, name) ==
    IF S = {} THEN 0
    ELSE LET i == CHOOSE j \in S : TRUE
         IN  Sample[i][name] * Sample[i][name] + SquaresOver(S \ {i}, name)

\* the labels predict_conditions gives samples of 2 to 20 observations
SmallSampleLabels == {Confidence(n) : n \in 2..ConfidenceYears}

\* C11: for a sample of exactly one observation statistics and predictions
\* are produced (the standard deviation being not-a-number) and the
\* degenerate statistics are surfaced in the confidence label: the label
\* differs from the label of a sample of 2 to 20 observations.
C11_SingleObservationIsSurfaced ==
    (predictions # <<>> /\ Len(Sample) = 1) =>
        /\ St.temp_std.nan /\ St.wind_std.nan
        /\ Pred.precipitation.confidence \notin SmallSampleLabels

\* the positions of all the records
All == 1..Len(Sample)

\* C12: the wind prediction has expected = wind mean, likely_range_low =
\* max(0, wind_mean - wind_std), likely_range_high = wind_mean + wind_std
\* and possible_max = sample maximum; likely_range_low is never negative.
\* (With S the sum and Q the sum of squares of the n wind speeds, the mean
\* is S / n, the variance (nQ - S^2) / (n(n - 1)), and mean > std exactly
\* when S > 0 and (2n - 1) S^2 > n^2 Q.)
C12_WindPrediction ==
    (predictions # <<>>) =>
        LET n == Len(Sample)
            S == FieldOver(All, "wind_speed_ms")
            Q == SquaresOver(All, "wind_speed_ms")
            low == Pred.wind.likely_range_low
            high == Pred.wind.likely_range_high
            above == n >= 2 /\ S > 0 /\ (2 * n - 1) * S * S > n * n * Q
        IN  /\ Equals(Pred.wind.expected, S, n)
            /\ \A i \in All : Sample[i].wind_speed_ms <= Pred.wind.possible_max
            /\ \E i \in All : Sample[i].wind_speed_ms = Pred.wind.possible_max
            /\ ~low.nan
            /\ (above =>
                  /\ Equals(low.a, S, n)
                  /\ (n * Q - S * S = 0 => low.s = 0)
                  /\ (n * Q - S * S > 0 =>
                        low.s = -1 /\ Equals(low.q, n * Q - S * S, n * (n - 1))))
            /\ (~above => low = [nan |-> FALSE, a |-> <<0, 1>>, s |-> 0,
                                 q |-> <<0, 1>>])
            /\ (n = 1 => high.nan)
            /\ (n >= 2 =>
                  /\ ~high.nan
                  /\ Equals(high.a, S, n)
                  /\ (n * Q - S * S = 0 => high.s = 0)
                  /\ (n * Q - S * S > 0 =>
                        high.s = 1 /\ Equals(high.q, n * Q - S * S, n * (n - 1))))

\* C12 witness: a sample whose wind standard deviation exceeds its positive
\* mean, so that the lower bound is clamped to 0
C12_Witness ==
    /\ predictions # <<>>
    /\ Len(Sample) >= 2
    /\ ~St.wind_std.nan
    /\ St.wind_mean[1] > 0
    /\ RatLt(RatMul(St.wind_mean, St.wind_mean), St.wind_std.q)
    /\ Pred.wind.likely_range_low.s = 0
    /\ Pred.wind.likely_range_low.a = <<0, 1>>

\* C13: for a sample of at least two records the temperature
\* likely_range_low is not above likely_range_high.
C13_LikelyRangeOrdered ==
    (predictions # <<>> /\ Len(Sample) >= 2) =>
        LET low == Pred.temperature.likely_range_low
            high == Pred.temperature.likely_range_high
        IN  low[2] > 0 /\ high[2] > 0 /\ low[1] * high[2] <= high[1] * low[2]

\* C13 witness: a sample whose records are in descending order of
\* temperature and whose likely range is not a single point
C13_Witness ==
    /\ predictions # <<>>
    /\ Len(Sample) >= 2
    /\ Sample[1].temperature_c > Sample[Len(Sample)].temperature_c
    /\ RatLt(Pred.temperature.likely_range_low,
             Pred.temperature.likely_range_high)

\* the k-th smallest temperature of the sample, k in 1..Len(Sample)
Smallest(k) ==
    CHOOSE v \in {Sample[i].temperature_c : i \in All} :
        /\ Cardinality({i \in All : Sample[i].temperature_c < v}) < k
        /\ k <= Cardinality({i \in All : Sample[i].temperature_c <= v})

\* x is the p-th percentile of the temperatures: the value at rank
\* p/100 * (n - 1), interpolated linearly between the sorted neighbours
IsPercentileOfTemperature(x, p) ==
    LET n == Len(Sample)
        below == (p * (n - 1)) \div 100
        part == (p * (n - 1)) % 100
        lo == Smallest(below + 1)
        hi == IF part = 0 THEN lo ELSE Smallest(below + 2)
    IN  Equals(x, 100 * lo + part * (hi - lo), 100)

\* C14: the temperature prediction has expected = sample mean, possible
\* range = (sample minimum, sample maximum) and likely range = the 25th and
\* 75th percentile of the sample temperatures by linear interpolation.
C14_TemperaturePrediction ==
    (predictions # <<>>) =>
        /\ Equals(Pred.temperature.expected,
                  FieldOver(All, "temperature_c"), Len(Sample))
        /\ Pred.temperature.possible_min = Smallest(1)
        /\ Pred.temperature.possible_max = Smallest(Len(Sample))
        /\ IsPercentileOfTemperature(Pred.temperature.likely_range_low, 25)
        /\ IsPercentileOfTemperature(Pred.temperature.likely_range_high, 75)

\* C14 witness: a 25th percentile that lies strictly between two different
\* neighbouring temperatures of the sample
C14_Witness ==
    /\ predictions # <<>>
    /\ \A i \in All : Pred.temperature.likely_range_low
                         # <<Sample[i].temperature_c, 1>>
    /\ RatLt(<<Pred.temperature.possible_min, 1>>,
             Pred.temperature.likely_range_low)
    /\ RatLt(Pred.temperature.likely_range_low,
             <<Pred.temperature.possible_max, 1>>)

\* the messages of each advisory group
RainMessages == {"rain_critical", "rain_high", "rain_moderate", "rain_low"}
TempMessages == {"very_hot", "hot", "cold", "cool"}
HeatMessages == {"heat_wave"}
WindMessages == {"strong_winds", "breezy"}

\* the elements of a list that belong to a set, in the list's order
Only(list, set) == LET in(x) == x \in set IN SelectSeq(list, in)

\* the rational x is above / below the integer k
Above(x, k) == x[1] > k * x[2]
Below(x, k) == x[1] < k * x[2]

\* C15: the rain group contributes exactly one message to every advisory
\* list: critical above 70, else high above 50, else moderate above 30,
\* else favorable; exactly 70, 50 and 30 fall into the next lower bucket
\* and 83.33 gives the critical message.
C15_RainAdvisory ==
    Called("recommendations") =>
        LET p == Pred.precipitation.probability
            rain == Only(recommendations, RainMessages)
        IN  /\ Len(rain) = 1
            /\ rain[1] = "rain_critical" <=> Above(p, 70)
            /\ rain[1] = "rain_high" <=> ~Above(p, 70) /\ Above(p, 50)
            /\ rain[1] = "rain_moderate" <=> ~Above(p, 50) /\ Above(p, 30)
            /\ rain[1] = "rain_low" <=> ~Above(p, 30)
            /\ (p = <<70, 1>> => rain[1] = "rain_high")
            /\ (p = <<50, 1>> => rain[1] = "rain_moderate")
            /\ (p = <<30, 1>> => rain[1] = "rain_low")
            /\ (Hundredths(p) = 8333 => rain[1] = "rain_critical")

\* C15 witness: a rain probability of exactly 70 with the high-probability
\* message
C15_Witness ==
    /\ Called("recommendations")
    /\ Pred.precipitation.probability = <<70, 1>>
    /\ Only(recommendations, RainMessages) = <<"rain_high">>

\* C16: the temperature group contributes at most one message: very-hot
\* above 32, else hot above 28, else cold below 5, else cool below 15, else
\* none (15 <= expected <= 28); exactly 32 is hot.
C16_TemperatureAdvisory ==
    Called("recommendations") =>
        LET t == Pred.temperature.expected
            temp == Only(recommendations, TempMessages)
        IN  /\ Len(temp) <= 1
            /\ temp = <<"very_hot">> <=> Above(t, 32)
            /\ temp = <<"hot">> <=> ~Above(t, 32) /\ Above(t, 28)
            /\ temp = <<"cold">> <=> Below(t, 5)
            /\ temp = <<"cool">> <=> ~Below(t, 5) /\ Below(t, 15)
            /\ temp = <<>> <=> ~Below(t, 15) /\ ~Above(t, 28)
            /\ (t = <<32, 1>> => temp = <<"hot">>)

\* C16 witness: an expected temperature of exactly 32 with the hot message
C16_Witness ==
    /\ Called("recommendations")
    /\ Pred.temperature.expected = <<32, 1>>
    /\ Only(recommendations, TempMessages) = <<"hot">>

\* C17: the wind group contributes at most one message: strong-wind
\* warning above 12, else breezy note above 8, else none; exactly 12 gives
\* the breezy note and exactly 8 none.
C17_WindAdvisory ==
    Called("recommendations") =>
        LET w == Pred.wind.expected
            wind == Only(recommendations, WindMessages)
        IN  /\ Len(wind) <= 1
            /\ wind = <<"strong_winds">> <=> Above(w, 12)
            /\ wind = <<"breezy">> <=> ~Above(w, 12) /\ Above(w, 8)
            /\ wind = <<>> <=> ~Above(w, 8)
            /\ (w = <<12, 1>> => wind = <<"breezy">>)
            /\ (w = <<8, 1>> => wind = <<>>)

\* C17 witness: an expected wind of exactly 12 with the breezy note
C17_Witness ==
    /\ Called("recommendations")
    /\ Pred.wind.expected = <<12, 1>>
    /\ Only(recommendations, WindMessages) = <<"breezy">>

\* C18: the heat-wave warning is in the advisory list if and only if
\* extreme_heat_days > 15, whatever the temperature group emitted; exactly
\* 15 gives no warning.
C18_HeatWaveAdvisory ==
    Called("recommendations") =>
        LET h == St.extreme_heat_days
            heat == Only(recommendations, HeatMessages)
        IN  /\ heat = <<"heat_wave">> <=> Above(h, 15)
            /\ heat = <<>> <=> ~Above(h, 15)
            /\ (h = <<15, 1>> => heat = <<>>)

\* C18 witness: the heat-wave warning beside the cold-weather message
C18_Witness ==
    /\ Called("recommendations")
    /\ Only(recommendations, HeatMessages) = <<"heat_wave">>
    /\ Only(recommendations, TempMessages) = <<"cold">>

\* the inputs the rules are re-evaluated on
ProbePercentages == {<<0, 1>>, <<31, 1>>, <<51, 1>>, <<71, 1>>, <<100, 1>>}
ProbeTemperatures == {<<-5, 1>>, <<10, 1>>, <<20, 1>>, <<30, 1>>, <<35, 1>>}
ProbeWinds == {<<0, 1>>, <<9, 1>>, <<13, 1>>}

\* two advisory lists agree on the messages of the groups in `groups`
SameMessages(a, b, groups) == \A g \in groups : Only(a, g) = Only(b, g)

\* C19: the advisory groups are evaluated independently and in a fixed
\* order: the messages appear in the order rain, temperature, heat-wave,
\* wind, and replacing the input of one group by any other value leaves the
\* messages of the other three groups as they are.
C19_AdvisoryGroupsIndependent ==
    Called("recommendations") =>
        /\ recommendations = Only(recommendations, RainMessages)
                               \o Only(recommendations, TempMessages)
                               \o Only(recommendations, HeatMessages)
                               \o Only(recommendations, WindMessages)
        /\ \A p \in ProbePercentages :
              SameMessages(recommendations,
                  Recommendations([Pred EXCEPT !.precipitation.probability = p],
                                  St),
                  {TempMessages, HeatMessages, WindMessages})
        /\ \A t \in ProbeTemperatures :
              SameMessages(recommendations,
                  Recommendations([Pred EXCEPT !.temperature.expected = t], St),
                  {RainMessages, HeatMessages, WindMessages})
        /\ \A h \in ProbePercentages :
              SameMessages(recommendations,
                  Recommendations(Pred, [St EXCEPT !.extreme_heat_days = h]),
                  {RainMessages, TempMessages, WindMessages})
        /\ \A w \in ProbeWinds :
              SameMessages(recommendations,
                  Recommendations([Pred EXCEPT !.wind.expected = w], St),
                  {RainMessages, TempMessages, HeatMessages})

\* C19 witness: an advisory list holding a message of each of the four
\* groups, the rain message not being the favorable one
C19_Witness ==
    /\ Called("recommendations")
    /\ Len(recommendations) = 4
    /\ recommendations[1] \in RainMessages \ {"rain_low"}
    /\ recommendations[2] \in TempMessages
    /\ recommendations[3] \in HeatMessages
    /\ recommendations[4] \in WindMessages

\* the items of each packing group
RainPacking == {"umbrella_high", "rain_jacket", "umbrella_moderate",
                "compact_umbrella"}
TempPacking == {"large_cooler", "extra_water", "sunscreen_spf50",
                "sunglasses_hat", "cooler", "water_bottles", "sunscreen",
                "winter_coat", "gloves_hat", "thermos", "jacket",
                "hot_beverages"}
WindPacking == {"tent_stakes", "indoor_backup", "weights",
                "secure_tablecloths"}

\* C20: get_packing_checklist evaluates three independent groups,
\* first-match-wins and strict: rain items above 70, else above 50, else
\* above 30; temperature items above 32, else above 28, else below 5, else
\* below 15; wind items above 15, else above 10.  Each group contributes
\* the items of at most one branch, decided by its own input alone, and the
\* groups' items appear in the order rain, temperature, wind.
C20_PackingGroups ==
    Called("get_packing_checklist") =>
        LET t == Pred.temperature.expected
            p == Pred.precipitation.probability
            w == Pred.wind.expected
            rain == Only(packing_items, RainPacking)
            temp == Only(packing_items, TempPacking)
            wind == Only(packing_items, WindPacking)
        IN  /\ rain = (IF Above(p, 70) THEN <<"umbrella_high", "rain_jacket">>
                       ELSE IF Above(p, 50) THEN <<"umbrella_moderate">>
                       ELSE IF Above(p, 30) THEN <<"compact_umbrella">>
                       ELSE <<>>)
            /\ temp = (IF Above(t, 32)
                       THEN <<"large_cooler", "extra_water", "sunscreen_spf50",
                              "sunglasses_hat">>
                       ELSE IF Above(t, 28)
                       THEN <<"cooler", "water_bottles", "sunscreen">>
                       ELSE IF Below(t, 5)
                       THEN <<"winter_coat", "gloves_hat", "thermos">>
                       ELSE IF Below(t, 15) THEN <<"jacket", "hot_beverages">>
                       ELSE <<>>)
            /\ wind = (IF Above(w, 15) THEN <<"tent_stakes", "indoor_backup">>
                       ELSE IF Above(w, 10)
                       THEN <<"weights", "secure_tablecloths">>
                       ELSE <<>>)
            /\ Only(packing_items, RainPacking \cup TempPacking \cup WindPacking)
                  = rain \o temp \o wind

\* C20 witness: a checklist with items of all three groups for an expected
\* wind of exactly 15, which gives the weights and not the tent stakes
C20_Witness ==
    /\ Called("get_packing_checklist")
    /\ Pred.wind.expected = <<15, 1>>
    /\ Only(packing_items, RainPacking) # <<>>
    /\ Only(packing_items, TempPacking) # <<>>
    /\ Only(packing_items, WindPacking) = <<"weights", "secure_tablecloths">>

\* the items of the compound rules
GeneralPacking == {"insect_repellent", "shade_structures"}

\* x occurs in the list
Has(list, x) == \E i \in 1..Len(list) : list[i] = x

\* C21: the packing list holds the insect-repellent item iff rain
\* probability > 40 and temperature > 25, and the shade-structure item iff
\* rain probability < 20 and temperature > 25; the compound items come after
\* every rain, temperature and wind item, insect repellent before shade.
C21_CompoundPackingRules ==
    Called("get_packing_checklist") =>
        LET t == Pred.temperature.expected
            p == Pred.precipitation.probability
            general == Only(packing_items, GeneralPacking)
            groups == Only(packing_items,
                           RainPacking \cup TempPacking \cup WindPacking)
        IN  /\ Has(packing_items, "insect_repellent")
                  <=> Above(p, 40) /\ Above(t, 25)
            /\ Has(packing_items, "shade_structures")
                  <=> Below(p, 20) /\ Above(t, 25)
            /\ packing_items = groups \o general
            /\ general \in {<<>>, <<"insect_repellent">>, <<"shade_structures">>,
                            <<"insect_repellent", "shade_structures">>}

\* C21 witness: the insect-repellent item closing a checklist that holds
\* rain, temperature and wind items before it
C21_Witness ==
    /\ Called("get_packing_checklist")
    /\ Len(packing_items) > 3
    /\ packing_items[Len(packing_items)] = "insect_repellent"
    /\ Only(packing_items, RainPacking) # <<>>
    /\ Only(packing_items, TempPacking) # <<>>
    /\ Only(packing_items, WindPacking) # <<>>

\* the "Perfect conditions" messages shown
PerfectShown == Only(ui, {"perfect_conditions"})

\* C22: the packing list is empty exactly when no packing rule triggers
\* (rain probability <= 30, 15 <= expected temperature <= 28, expected wind
\* <= 10 and not (rain probability < 20 and temperature > 25)); then, and
\* only then, one favorable-conditions message is shown.  Thirty years of
\* precipitation 0, 20 degrees and wind 5 give rain_probability 0, the
\* favorable rain message as the only advisory and no packing items.
C22_EmptyPackingList ==
    Called("get_packing_checklist") =>
        LET t == Pred.temperature.expected
            p == Pred.precipitation.probability
            w == Pred.wind.expected
            quiet == /\ ~Above(p, 30)
                     /\ ~Below(t, 15) /\ ~Above(t, 28)
                     /\ ~Above(w, 10)
                     /\ ~(Below(p, 20) /\ Above(t, 25))
            calm(r) == /\ r.precipitation_mm = 0 /\ r.temperature_c = 20
                       /\ r.wind_speed_ms = 5
        IN  /\ packing_items = <<>> <=> quiet
            /\ PerfectShown = (IF packing_items = <<>>
                               THEN <<"perfect_conditions">> ELSE <<>>)
            /\ (Len(Sample) = 30 /\ Where(calm) = All) =>
                  /\ St.rain_probability = <<0, 1>>
                  /\ recommendations = <<"rain_low">>
                  /\ packing_items = <<>>

\* C22 witness: the thirty calm years, with the favorable-conditions message
C22_Witness ==
    /\ Called("get_packing_checklist")
    /\ Len(Sample) = 30
    /\ \A i \in All : /\ Sample[i].precipitation_mm = 0
                      /\ Sample[i].temperature_c = 20
                      /\ Sample[i].wind_speed_ms = 5
    /\ packing_items = <<>>
    /\ Has(ui, "perfect_conditions")

\* C28: for every input (temperature, rain probability, wind) the packing
\* list never holds both the insect-repellent and the shade-structure item:
\* at most one compound item is appended.
C28_AtMostOneCompoundItem ==
    Called("get_packing_checklist") =>
        /\ \A t \in ProbeTemperatures, p \in ProbePercentages, w \in ProbeWinds :
              Len(Only(get_packing_checklist(t, p, w), GeneralPacking)) <= 1
        /\ Len(Only(packing_items, GeneralPacking)) <= 1
        /\ ~(Has(packing_items, "insect_repellent")
               /\ Has(packing_items, "shade_structures"))

\* C28 witness: a day warmer than 25 degrees with a rain probability between
\* 40 and 50, whose checklist holds the insect-repellent item alone of the two
C28_Witness ==
    /\ Called("get_packing_checklist")
    /\ Above(Pred.temperature.expected, 25)
    /\ Above(Pred.precipitation.probability, 40)
    /\ Below(Pred.precipitation.probability, 50)
    /\ Only(packing_items, GeneralPacking) = <<"insect_repellent">>

\* C29: for the same predictions the packing list is consistent with the
\* advisory list: rain items iff the rain advisory is not the favorable
\* message, temperature items iff a temperature advisory is present, wind
\* items only with a wind advisory, and the tent-stakes/indoor-backup items
\* only with the strong-wind warning.
C29_PackingConsistentWithAdvisory ==
    Called("get_packing_checklist") =>
        /\ Only(packing_items, RainPacking) # <<>>
              <=> ~Has(recommendations, "rain_low")
        /\ Only(packing_items, TempPacking) # <<>>
              <=> Only(recommendations, TempMessages) # <<>>
        /\ Only(packing_items, WindPacking) # <<>>
              => Only(recommendations, WindMessages) # <<>>
        /\ Has(packing_items, "tent_stakes") \/ Has(packing_items, "indoor_backup")
              => Has(recommendations, "strong_winds")

\* C29 witness: a breezy note without wind items (expected wind between 8
\* and 10) in a run whose checklist holds rain items
C29_Witness ==
    /\ Called("get_packing_checklist")
    /\ Has(recommendations, "breezy")
    /\ Only(packing_items, WindPacking) = <<>>
    /\ Only(packing_items, RainPacking) # <<>>

\* x + y <= k for rationals x, y and an integer k
SumAtMost(x, y, k) == x[1] * y[2] + y[1] * x[2] <= k * x[2] * y[2]

\* C30: for every non-empty sample heavy_rain_days <= rain_probability
\* (every record with precipitation > 25 is a rained record) and
\* extreme_heat_days + extreme_cold_days <= 100.
C30_ExtremeRatesConsistent ==
    Called("calculate_statistics") =>
        /\ ~RatLt(St.rain_probability, St.heavy_rain_days)
        /\ SumAtMost(St.extreme_heat_days, St.extreme_cold_days, 100)
        /\ Where(HeavyAt) \subseteq Where(RainedAt)
        /\ Where(HotAt) \cap Where(FreezingAt) = {}

\* C30 witness: some but not all rained years had heavy rain, and some
\* years were freezing
C30_Witness ==
    /\ Called("calculate_statistics")
    /\ Above(St.heavy_rain_days, 0)
    /\ RatLt(St.heavy_rain_days, St.rain_probability)
    /\ Above(St.extreme_cold_days, 0)

\* the stages after the fetch
LaterStages == {"process_nasa_data", "calculate_statistics",
                "predict_conditions", "recommendations",
                "get_packing_checklist"}

\* C25: within one run the data source is requested at most once; when the
\* request raises, times out or returns a non-success status,
\* fetch_nasa_power_data returns no data and the run reports a fetch failure
\* without invoking aggregation, statistics, prediction or advisory
\* generation.
C25_FetchFailureEndsRun ==
    /\ Len(Only(calls, {"fetch_nasa_power_data"})) <= 1
    /\ \A i \in 1..Len(ui) :
          ui[i] \in {"api_error", "fetch_exception"} =>
              /\ nasa_data = <<>>
              /\ Only(calls, LaterStages) = <<>>
              /\ historical_data = <<>> /\ stats = <<>> /\ predictions = <<>>
              /\ recommendations = <<>> /\ packing_items = <<>>
              /\ (pc = "done" => ui = <<ui[i], "fetch_failed">>)
              /\ (pc # "done" => pc = "fetched" /\ ui = <<ui[i]>>)

\* C25 witness: a run that ended after a request that raised, with the
\* fetch-failure message and the one call of fetch_nasa_power_data
C25_Witness ==
    /\ pc = "done"
    /\ ui = <<"fetch_exception", "fetch_failed">>
    /\ calls = <<"fetch_nasa_power_data">>

\* the stages of a run in their order
StageOrder == <<"fetch_nasa_power_data", "process_nasa_data",
                "calculate_statistics", "predict_conditions",
                "recommendations", "get_packing_checklist">>

\* the messages that name the outcome of a run
Outcomes == {"location_error", "fetch_failed", "no_data", "analysis_complete"}

\* C26: in every run each stage executes at most once and only in the order
\* fetch, process_nasa_data, calculate_statistics, predict_conditions,
\* advisory and packing generation, each stage starting only after the
\* previous one produced a usable result; the fetch is attempted only when
\* latitude and longitude are set (otherwise an error is shown and nothing
\* is fetched); no stage raises past the run, and every run ends in exactly
\* one of the four outcomes location error, fetch failure, no-data error,
\* completed analysis.
C26_StagesInOrder ==
    /\ Len(calls) <= Len(StageOrder)
    /\ calls = SubSeq(StageOrder, 1, Len(calls))
    /\ Called("fetch_nasa_power_data") => latitude # <<>> /\ longitude # <<>>
    /\ Called("process_nasa_data") => nasa_data # <<>>
    /\ Called("calculate_statistics") =>
          historical_data # <<>> /\ Len(historical_data[1]) > 0
    /\ Called("predict_conditions") => stats # <<>>
    /\ Called("recommendations") => predictions # <<>>
    /\ Called("get_packing_checklist") => recommendations # <<>>
    /\ (latitude = <<>> \/ longitude = <<>>) =>
          calls = <<>> /\ (pc = "done" => ui = <<"location_error">>)
    /\ Len(Only(ui, Outcomes)) <= 1
    /\ pc = "done" =>
          /\ Len(Only(ui, Outcomes)) = 1
          /\ Has(ui, "analysis_complete") <=> calls = StageOrder
          /\ Has(ui, "no_data") =>
                calls = SubSeq(StageOrder, 1, 2) /\ ~HasData
          /\ Has(ui, "fetch_failed") => calls = SubSeq(StageOrder, 1, 1)
    /\ pc \in {"analyze", "fetched", "processed", "statistics", "predicted",
              "recommended", "done"}

\* C26 witness: a completed analysis, all six stages called
C26_Witness ==
    /\ pc = "done"
    /\ calls = StageOrder
    /\ Has(ui, "analysis_complete")
    /\ packing_items # <<>>

\* request r has invoked f
ReqCalled(r, f) == Has(calls[r], f)

\* requests a and b were given the same raw data and the same target
SameInput(a, b) ==
    /\ nasa_data[a] # <<>> /\ nasa_data[a] = nasa_data[b]
    /\ target_month[a] = target_month[b] /\ target_day[a] = target_day[b]

\* C23: running the pipeline twice on identical raw input data and the same
\* target (month, day) yields identical samples, Statistics, Predictions,
\* advisory and packing lists in the same order, whenever the stages run
\* (no stage uses randomness, the clock, or a value outside its arguments).
C23_PipelineDeterministic ==
    \A a, b \in Requests :
        SameInput(a, b) =>
            /\ (ReqCalled(a, "process_nasa_data")
                  /\ ReqCalled(b, "process_nasa_data"))
                  => historical_data[a] = historical_data[b]
            /\ (ReqCalled(a, "calculate_statistics")
                  /\ ReqCalled(b, "calculate_statistics"))
                  => stats[a] = stats[b]
            /\ (ReqCalled(a, "predict_conditions")
                  /\ ReqCalled(b, "predict_conditions"))
                  => predictions[a] = predictions[b]
            /\ (ReqCalled(a, "recommendations")
                  /\ ReqCalled(b, "recommendations"))
                  => recommendations[a] = recommendations[b]
            /\ (ReqCalled(a, "get_packing_checklist")
                  /\ ReqCalled(b, "get_packing_checklist"))
                  => packing_items[a] = packing_items[b]

\* C23 witness: two completed requests on the same two-year series and
\* target, the clock having moved past the year the series was fetched in
C23_Witness ==
    /\ SameInput("a", "b")
    /\ ReqCalled("a", "get_packing_checklist")
    /\ ReqCalled("b", "get_packing_checklist")
    /\ Len(historical_data["a"][1]) = 2
    /\ packing_items["a"] # <<>>
    /\ \E k \in DOMAIN nasa_data["a"][1].properties.parameter.T2M.val :
          k \div 10000 < current_year - YearsBack

\* every result request r holds is what the stage gives on r's own input
Isolated(r) ==
    /\ ReqCalled(r, "process_nasa_data") =>
          historical_data[r] =
              process_nasa_data(nasa_data[r][1], target_month[r], target_day[r])
    /\ ReqCalled(r, "calculate_statistics") =>
          stats[r] = calculate_statistics(historical_data[r][1])
    /\ ReqCalled(r, "predict_conditions") =>
          predictions[r] =
              <<predict_conditions(historical_data[r][1], stats[r][1])>>
    /\ ReqCalled(r, "recommendations") =>
          recommendations[r] = Recommendations(predictions[r][1], stats[r][1])
    /\ ReqCalled(r, "get_packing_checklist") =>
          packing_items[r] =
              get_packing_checklist(predictions[r][1].temperature.expected,
                                    predictions[r][1].precipitation.probability,
                                    predictions[r][1].wind.expected)

\* a step leaves what request r was given and has produced as it is
InputsKept(r) ==
    /\ target_month'[r] = target_month[r] /\ target_day'[r] = target_day[r]
    /\ nasa_data[r] # <<>> => nasa_data'[r] = nasa_data[r]
    /\ ReqCalled(r, "process_nasa_data") =>
          historical_data'[r] = historical_data[r]
    /\ ReqCalled(r, "calculate_statistics") => stats'[r] = stats[r]
    /\ ReqCalled(r, "predict_conditions") => predictions'[r] = predictions[r]
    /\ ReqCalled(r, "recommendations") =>
          recommendations'[r] = recommendations[r]
    /\ ReqCalled(r, "get_packing_checklist") =>
          packing_items'[r] = packing_items[r]

\* C24: the stages keep no state between invocations and share no mutable
\* state: no step of any request modifies the raw mapping, sample,
\* statistics or predictions a request holds, and with the stages of two
\* requests interleaved in any order each request holds exactly the sample,
\* Statistics, Predictions and Advisory its own input gives.
C24_RequestsIsolated ==
    /\ [](\A r \in Requests : Isolated(r))
    /\ [][\A r \in Requests : InputsKept(r)]_vars

\* C24 witness: two requests on different series, both between two stages
\* of the pipeline, each holding a non-empty sample
C24_Witness ==
    /\ pc["a"] = "statistics" /\ pc["b"] = "recommended"
    /\ nasa_data["a"] # nasa_data["b"]
    /\ Len(historical_data["a"][1]) = 2
    /\ Len(historical_data["b"][1]) = 2
    /\ historical_data["a"] # historical_data["b"]

\* C27: the sample returned by process_nasa_data is ordered by ascending
\* year, whatever the key order of the provider's temperature mapping.
C27_SampleAscendingByYear ==
    \A r \in Requests :
        (ReqCalled(r, "process_nasa_data") /\ historical_data[r] # <<>>) =>
            \A i, j \in 1..Len(historical_data[r][1]) :
                i < j => historical_data[r][1][i].year
                           < historical_data[r][1][j].year

====
